---- MODULE Spec2Model ----
(***************************************************************************)
(* Model of pkg/commons-node/process.js: the process lifecycle stream      *)
(* (_createProcessStream), the output multiplexer (getOutputStream /       *)
(* observeProcess) and process termination (killProcess and the tree       *)
(* killers).  One subscription is followed at a time; a stream may be      *)
(* subscribed again after the previous subscription has ended.  A handle   *)
(* is kept for as long as something can still refer to it: the current     *)
(* subscription, a factory that hands it out, or a kill that is pending.   *)
(***************************************************************************)
EXTENDS Integers, Sequences, FiniteSets, TLC

\* ---------------------------------------------------------------- bounds
\* Subscriptions made to the same stream during one behaviour.
MaxSubs == 2
\* Data chunks delivered on stdout and stderr together, per subscription.
MaxChunks == 2
\* Process 'error' notifications per subscription.
MaxErrors == 1
\* Direct killProcess calls made by a caller on one handle.
MaxKillCalls == 2
\* 'exit' notifications carrying SIGUSR1, per handle.
MaxUsr1 == 1
\* Process rows of a process-listing report.
MaxRows == 3

\* ------------------------------------------------------------- constants
\* null, for a signal name or an error
Null == "null"
\* null, for an exit code
NoCode == -1
\* parseInt's result on a column that is not a number
NaN == -2
NL == "\n"
BasePid == 50

\* The values a process 'exit' notification carries (exitCode, signal).
ExitArgs ==
  { [exitCode |-> 0, signal |-> Null],
    [exitCode |-> 1, signal |-> Null],
    [exitCode |-> NoCode, signal |-> "SIGTERM"],
    [exitCode |-> NoCode, signal |-> "SIGUSR1"] }

\* Chunks a stream's 'data' notification carries.
Chunks == { <<"a">>, <<"a", NL, "b">> }

StreamNames == {"stdout", "stderr"}

Kinds == {"observeProcess", "observeProcessExit", "createProcessStream"}

\* Outcomes of ChildProcess.kill(): the signal was sent, the process was
\* already gone (returns false), or the call threw.
KillResults == {"ok", "gone", "throw"}


VARIABLES
  platform,      \* process.platform: "posix" or "win32"
  factory,       \* createProcess: "fresh" spawns, "given" returns a handle made
                 \* earlier, "none": no stream, a caller holds the handle
  handles,       \* the ChildProcess handles in use, by pid
  spawned,       \* the pids of the processes createProcess has spawned
  createCalls,   \* invocations of the supplied createProcess function
  subs,          \* subscriptions made so far
  phase,         \* "idle", "live", "completed", "failed", "unsubscribed"
  kind,          \* which exported stream was subscribed
  killTree,      \* the killTreeOnComplete argument of the subscription
  proc,          \* pid of the subscription's handle (0: none)
  outer,         \* the lifecycle stream of the exported function: [on, finished]
  inner,         \* the lifecycle stream nested in getOutputStream: [on, finished]
  exitListener,  \* flatMap(observeProcessExitMessage) is listening for 'exit'
  replay,        \* publishReplay buffer of getOutputStream's exit
  replayDone,    \* the replayed exit stream has completed
  muxOn,         \* getOutputStream's merged stream is subscribed
  lines,         \* per output stream: [open, timer, buf]
  events,        \* what the subscriber has received
  failure,       \* the error the stream failed with, or Null
  tasks,         \* the _killProcess promises: [h, tree, by, pc, failed, table]
  acts,          \* termination actions performed, in order
  errorLog,      \* tasks whose failure killProcess logged
  raised,        \* an exception reached killProcess's caller
  hist,          \* what happened to the subscription's process (observation only)
  run,           \* runCommand: [on, acc, result], acc the accumulator of reduce()
  ps             \* a process-listing report, its parse and a query on it

\* The state of the streams and of termination.
streamVars ==
  << platform, factory, handles, spawned, createCalls, subs, phase, kind, killTree,
     proc, outer, inner, exitListener, replay, replayDone, muxOn,
     lines, events, failure, tasks, acts, errorLog, raised, hist, run >>

vars == << streamVars, ps >>

\* The whole mutable state as one record, for the operators that model code.
World ==
  [ handles |-> handles, spawned |-> spawned, createCalls |-> createCalls, subs |-> subs,
    phase |-> phase, kind |-> kind, killTree |-> killTree, proc |-> proc,
    outer |-> outer, inner |-> inner, exitListener |-> exitListener,
    replay |-> replay, replayDone |-> replayDone, muxOn |-> muxOn,
    lines |-> lines, events |-> events, failure |-> failure, tasks |-> tasks,
    acts |-> acts, errorLog |-> errorLog, raised |-> raised, hist |-> hist,
    run |-> run ]

\* ----------------------------------------------------------- runCommand
\* The seed object of reduce(): created once, when runCommand is called.
Seed == [error |-> FALSE, stdout |-> << >>, stderr |-> << >>, exitMessage |-> << >>]

NoRun == [on |-> FALSE, acc |-> Seed, result |-> << >>]

\* The accumulator function: it changes acc in place and returns it.
ReduceEvent(acc, event) ==
  CASE event.kind = "stdout" -> [acc EXCEPT !.stdout = @ \o event.data]
    [] event.kind = "stderr" -> [acc EXCEPT !.stderr = @ \o event.data]
    [] event.kind = "error"  -> [acc EXCEPT !.error = TRUE]
    [] event.kind = "exit"   -> [acc EXCEPT !.exitMessage = << event >>]
    [] OTHER -> acc

RECURSIVE Reduce(_, _)
Reduce(acc, evs) ==
  IF evs = << >> THEN acc ELSE Reduce(ReduceEvent(acc, Head(evs)), Tail(evs))

\* map(): what the accumulated value becomes when the sequence completes.
MapResult(acc) ==
  IF acc.error
    THEN [kind |-> "ProcessSystemError", exitMessage |-> << >>,
          stdout |-> << >>, stderr |-> << >>]
  ELSE IF acc.exitMessage # << >> /\ acc.exitMessage[1].exitCode # 0
    THEN [kind |-> "ProcessExitError", exitMessage |-> acc.exitMessage,
          stdout |-> acc.stdout, stderr |-> acc.stderr]
  ELSE [kind |-> "value", exitMessage |-> << >>, stdout |-> acc.stdout,
        stderr |-> << >>]

\* runCommand = observeProcess(..).reduce(..).map(..): W is the state a
\* step of observeProcess leads to.  The events the step emitted are
\* reduced into the accumulator, which is the seed object itself and so
\* lives on from one subscription to the next; completion maps it.
runCommand(W) ==
  IF ~W.run.on THEN W
  ELSE LET fresh == W.subs # subs
           new   == SubSeq(W.events, IF fresh THEN 1 ELSE Len(events) + 1, Len(W.events))
           acc   == Reduce(W.run.acc, new)
           done  == W.phase = "completed" /\ (fresh \/ phase = "live")
       IN  [W EXCEPT !.run.acc = acc,
                     !.run.result = IF done THEN << MapResult(acc) >>
                                    ELSE IF fresh THEN << >> ELSE @]

\* The handles something still refers to: the subscription's own, those a
\* factory hands out or a caller holds, and those of pending kills.
InUse(W) ==
  { p \in DOMAIN W.handles :
      \/ p = W.proc
      \/ factory # "fresh"
      \/ \E t \in 1..Len(W.tasks) :
           W.tasks[t].h = p /\ W.tasks[t].pc \in {"awaitPs", "awaitTaskkill"} }

Set(W0) ==
  LET W == runCommand(W0) IN
  /\ handles' = [p \in InUse(W) |-> W.handles[p]]
  /\ spawned' = W.spawned
  /\ createCalls' = W.createCalls
  /\ subs' = W.subs
  /\ phase' = W.phase
  /\ kind' = W.kind
  /\ killTree' = W.killTree
  /\ proc' = W.proc
  /\ outer' = W.outer
  /\ inner' = W.inner
  /\ exitListener' = W.exitListener
  /\ replay' = W.replay
  /\ replayDone' = W.replayDone
  /\ muxOn' = W.muxOn
  /\ lines' = W.lines
  /\ events' = W.events
  /\ failure' = W.failure
  /\ tasks' = W.tasks
  /\ acts' = W.acts
  /\ errorLog' = W.errorLog
  /\ raised' = W.raised
  /\ hist' = W.hist
  /\ run' = W.run
  /\ UNCHANGED << platform, factory, ps >>

\* ------------------------------------------------------------- handles
Pid(n) == BasePid + 10 * n

NewHandle(pid) ==
  [ pid |-> pid, exitCode |-> NoCode, signalCode |-> Null, killed |-> FALSE,
    wasKilled |-> FALSE, ended |-> [s \in StreamNames |-> FALSE] ]

\* The process behind the handle has really exited (by code or by signal).
Terminated(h) ==
  h.exitCode # NoCode \/ (h.signalCode # Null /\ h.signalCode # "SIGUSR1")

\* ------------------------------------------------------- process table
\* psTree(): the parsed process table at the moment of the query.  Rows
\* are [parentPid, pid]; a row whose parent column was not numeric has
\* parentPid = NaN.
Tables(p) ==
  { << >>,
    << [parentPid |-> 1, pid |-> p],
       [parentPid |-> p, pid |-> p + 1],
       [parentPid |-> p + 1, pid |-> p + 3],
       [parentPid |-> p, pid |-> p + 2],
       [parentPid |-> NaN, pid |-> p + 4] >> }

\* A filter that keeps the process itself with its children.
getChildrenOfProcess_WithSelf(processes, processId) ==
  LET IsChild(processInfo) ==
        processInfo.parentPid = processId \/ processInfo.pid = processId
  IN  SelectSeq(processes, IsChild)

\* A filter on the row's own pid instead of its parent's.
getChildrenOfProcess_ByPid(processes, processId) ==
  LET IsChild(processInfo) == processInfo.pid = processId
  IN  SelectSeq(processes, IsChild)

getChildrenOfProcess(processes, processId) ==
  LET IsChild(processInfo) == processInfo.parentPid = processId
  IN  SelectSeq(processes, IsChild)

\* ------------------------------------------------ process-table parser
\* Text is a sequence of one-character strings.
CR == "\r"
SP == " "
TAB == "\t"

\* What String.prototype.trim and the regular expression \s take as space.
IsSpace(c) == c \in {SP, TAB, CR, NL}

Digits == << "0", "1", "2", "3", "4", "5", "6", "7", "8", "9" >>

IsDigit(c) == \E d \in 1..10 : Digits[d] = c

DigitValue(c) == (CHOOSE d \in 1..10 : Digits[d] = c) - 1

\* psOutput.split(/\n|\r\n/): a separator is "\n", or "\r" followed by "\n".
RECURSIVE SplitLines(_, _, _)
SplitLines(text, cur, out) ==
  IF text = << >> THEN Append(out, cur)
  ELSE IF Head(text) = NL
    THEN SplitLines(Tail(text), << >>, Append(out, cur))
  ELSE IF Len(text) >= 2 /\ text[1] = CR /\ text[2] = NL
    THEN SplitLines(SubSeq(text, 3, Len(text)), << >>, Append(out, cur))
  ELSE SplitLines(Tail(text), Append(cur, Head(text)), out)

\* line.trim()
RECURSIVE Trim(_)
Trim(line) ==
  IF line = << >> THEN << >>
  ELSE IF IsSpace(Head(line)) THEN Trim(Tail(line))
  ELSE IF IsSpace(line[Len(line)]) THEN Trim(SubSeq(line, 1, Len(line) - 1))
  ELSE line

\* trimmed.split(/\s+/): the empty string gives one empty column.
RECURSIVE SplitColumns(_, _, _)
SplitColumns(text, cur, out) ==
  IF text = << >> THEN Append(out, cur)
  ELSE IF IsSpace(Head(text))
    THEN IF cur = << >> THEN SplitColumns(Tail(text), << >>, out)
         ELSE SplitColumns(Tail(text), << >>, Append(out, cur))
  ELSE SplitColumns(Tail(text), Append(cur, Head(text)), out)

\* The value of the longest prefix of decimal digits, NaN when there is none.
RECURSIVE DigitsPrefix(_, _, _)
DigitsPrefix(text, value, any) ==
  IF text = << >> \/ ~IsDigit(Head(text))
    THEN IF any THEN value ELSE NaN
    ELSE DigitsPrefix(Tail(text), 10 * value + DigitValue(Head(text)), TRUE)

\* parseInt(columns[k], 10); a missing column is undefined and gives NaN.
parseInt(columns, k) ==
  IF k > Len(columns) THEN NaN ELSE DigitsPrefix(columns[k], 0, FALSE)

\* columns.join(' ')
RECURSIVE Join(_)
Join(columns) ==
  IF columns = << >> THEN << >>
  ELSE IF Len(columns) = 1 THEN columns[1]
  ELSE columns[1] \o << SP >> \o Join(Tail(columns))

\* The record one line of the report is mapped to.
ParseLine(line) ==
  LET columns == SplitColumns(Trim(line), << >>, << >>)
  IN  [ command   |-> Join(SubSeq(columns, 3, Len(columns))),
        parentPid |-> parseInt(columns, 1),
        pid       |-> parseInt(columns, 2) ]

\* parsePsOutput: drop the header line, map every other line.
parsePsOutput(psOutput) ==
  LET ls == Tail(SplitLines(psOutput, << >>, << >>))
  IN  [n \in 1..Len(ls) |-> ParseLine(ls[n])]

\* -------------------------------------------------------- termination
Act(op, pid, t) == [op |-> op, pid |-> pid, task |-> t]

\* ChildProcess.kill() with the default signal: marks the handle killed
\* only when the signal was actually sent.
HandleKill(h, r) == IF r = "ok" THEN [h EXCEPT !.killed = TRUE] ELSE h

\* What kill() can do on a handle in its present state.
KillResultsFor(h) == IF Terminated(h) THEN {"gone"} ELSE KillResults

\* An async function turns an exception of its body into a rejection of
\* the promise it returns; nothing is thrown to the caller.
AsyncOutcome(threw) ==
  [ pc |-> IF threw THEN "rejected" ELSE "resolved", raised |-> FALSE ]

\* The rejection handler killProcess attaches: log, nothing else.
OnSettled(W, t) ==
  IF W.tasks[t].pc = "rejected"
    THEN [W EXCEPT !.errorLog = Append(@, t)]
    ELSE W

\* The callback of the taskkill command (error = Null when it succeeded).
killWindowsProcessTree(error) ==
  IF error = Null THEN "rejected" ELSE "resolved"

\* A _killProcess that takes the tree path whatever killTree says.
_killProcess_AlwaysTree(W, i, tree, by, r) ==
  LET t  == Len(W.tasks) + 1
      h  == [W.handles[i] EXCEPT !.wasKilled = TRUE]
      mk(pc, failed) ==
        [ h |-> i, tree |-> tree, by |-> by, pc |-> pc, failed |-> failed,
          table |-> << >> ]
  IN  IF platform = "win32"
        THEN [W EXCEPT !.handles[i] = h,
                       !.acts = Append(@, Act("taskkill", h.pid, t)),
                       !.tasks = Append(@, mk("awaitTaskkill", FALSE))]
        ELSE [W EXCEPT !.handles[i] = h,
                       !.acts = Append(@, Act("ps", h.pid, t)),
                       !.tasks = Append(@, mk("awaitPs", FALSE))]

\* The synchronous part of _killProcess, up to its first await.
_killProcess(W, i, tree, by, r) ==
  LET t  == Len(W.tasks) + 1
      h  == [W.handles[i] EXCEPT !.wasKilled = TRUE]
      mk(pc, failed) ==
        [ h |-> i, tree |-> tree, by |-> by, pc |-> pc, failed |-> failed,
          table |-> << >> ]
  IN  IF ~tree
        THEN LET o == AsyncOutcome(r = "throw")
             IN  [W EXCEPT !.handles[i] = HandleKill(h, r),
                           !.acts = Append(@, Act("kill", h.pid, t)),
                           !.tasks = Append(@, mk(o.pc, r = "throw")),
                           !.raised = @ \/ o.raised]
        ELSE IF platform = "win32"
          THEN [W EXCEPT !.handles[i] = h,
                         !.acts = Append(@, Act("taskkill", h.pid, t)),
                         !.tasks = Append(@, mk("awaitTaskkill", FALSE))]
          ELSE [W EXCEPT !.handles[i] = h,
                         !.acts = Append(@, Act("ps", h.pid, t)),
                         !.tasks = Append(@, mk("awaitPs", FALSE))]

killProcess(W, i, tree, by, r) ==
  LET W1 == _killProcess(W, i, tree, by, r)
  IN  OnSettled(W1, Len(W1.tasks))

\* The SIGTERMs of killUnixProcessTree's loop: children[1..n] in order.
RECURSIVE SignalChildren(_, _, _)
SignalChildren(children, n, t) ==
  IF n = 0 THEN << >>
  ELSE Append(SignalChildren(children, n - 1, t), Act("signal", children[n].pid, t))

\* killUnixProcessTree after the process table has arrived.  failAt = 0:
\* every process.kill(child) succeeds; failAt = k: the k-th one throws,
\* which ends the loop and rejects the promise.
killUnixProcessTree(W, t, table, failAt, r) ==
  LET i        == W.tasks[t].h
      h        == W.handles[i]
      children == getChildrenOfProcess(table, h.pid)
      n        == IF failAt = 0 THEN Len(children) ELSE failAt - 1
      sent     == SignalChildren(children, n, t)
  IN  IF failAt # 0
        THEN [W EXCEPT !.acts = (@ \o sent)
                                  \o << Act("signal-failed", children[failAt].pid, t) >>,
                       !.tasks[t].table = table,
                       !.tasks[t].pc = "rejected",
                       !.tasks[t].failed = TRUE]
        ELSE [W EXCEPT !.acts = (@ \o sent) \o << Act("kill", h.pid, t) >>,
                       !.handles[i] = HandleKill(h, r),
                       !.tasks[t].table = table,
                       !.tasks[t].pc = AsyncOutcome(r = "throw").pc,
                       !.tasks[t].failed = (r = "throw")]

\* The ps command of a pending tree kill completes.
PsDone(t) ==
  /\ t \in 1..Len(tasks)
  /\ tasks[t].pc = "awaitPs"
  /\ \/ \* checkOutput throws: the command failed
        Set(OnSettled([World EXCEPT !.tasks[t].pc = "rejected",
                                    !.tasks[t].failed = TRUE], t))
     \/ \E table \in Tables(handles[tasks[t].h].pid) :
          LET n == Len(getChildrenOfProcess(table, handles[tasks[t].h].pid))
          IN  \E failAt \in 0..n, r \in KillResultsFor(handles[tasks[t].h]) :
                Set(OnSettled(killUnixProcessTree(World, t, table, failAt, r), t))

\* The taskkill command of a pending tree kill completes.
TaskkillDone(t) ==
  /\ t \in 1..Len(tasks)
  /\ tasks[t].pc = "awaitTaskkill"
  /\ \E error \in {Null, "failed"} :
       Set(OnSettled([World EXCEPT !.tasks[t].pc = killWindowsProcessTree(error),
                                   !.tasks[t].failed = (error # Null)], t))

\* A caller invokes the exported killProcess on a handle it holds.
CallerKill(i) ==
  /\ factory = "none"
  /\ i \in DOMAIN handles
  /\ Cardinality({t \in 1..Len(tasks) : tasks[t].by = "caller"}) < MaxKillCalls
  /\ \E tree \in BOOLEAN, r \in KillResultsFor(handles[i]) :
       Set(killProcess(World, i, tree, "caller", r))

\* ------------------------------------------------------- line streams
\* (current + value).split('\n') of splitStream: the complete lines,
\* newline kept, and the unfinished rest.
RECURSIVE SplitText(_, _, _)
SplitText(text, cur, out) ==
  IF text = << >> THEN [out |-> out, current |-> cur]
  ELSE IF Head(text) = NL
    THEN SplitText(Tail(text), << >>, Append(out, Append(cur, NL)))
    ELSE SplitText(Tail(text), Append(cur, Head(text)), out)

RECURSIVE Flatten(_)
Flatten(ss) == IF ss = << >> THEN << >> ELSE Head(ss) \o Flatten(Tail(ss))

LineEvents(s, ls) == [n \in 1..Len(ls) |-> [kind |-> s, data |-> ls[n]]]

ClosedLine == [open |-> FALSE, timer |-> FALSE, buf |-> << >>]

\* ------------------------------------------------------ lifecycle stream
\* The invariant() _createProcessStream checks on the handle it was given.
ProcessIsFresh(h) == h.exitCode = NoCode /\ ~h.killed

\* No stream asks for errors to be thrown.
ThrowOnError_Never(k) == FALSE

\* createProcessStream passes throwOnError = true, the others false.
ThrowOnError(k) == k = "createProcessStream"

\* flatMap calls getOutputStream(process, index): the nested lifecycle's
\* killTreeOnComplete is the index 0, not observeProcess's argument.
KillTreeOf(W, which) == IF which = "outer" THEN W.killTree ELSE FALSE

\* The message observeProcessExitMessage builds from an 'exit' notification.
ExitMessage(a) == [kind |-> "exit", exitCode |-> a.exitCode, signal |-> a.signal]

\* No filter: every 'exit' notification counts.
ExitFilter_None(message) == TRUE

\* ... and the filter it applies to it.
ExitFilter(message) == message.signal # "SIGUSR1"

\* finally() without the test of the handle's wasKilled flag.
LifecycleFinally_NoFlag(W, which, r) ==
  IF ~W[which].finished
    THEN killProcess(W, W.proc, KillTreeOf(W, which), which, r)
    ELSE W

\* finally() of _createProcessStream.
LifecycleFinally(W, which, r) ==
  IF ~W.handles[W.proc].wasKilled /\ ~W[which].finished
    THEN killProcess(W, W.proc, KillTreeOf(W, which), which, r)
    ELSE W

\* A predicate that ends the sequence at 'exit' only.
KeepGoing_ExitOnly(event) == event.kind # "exit"

\* The predicate given to takeWhileInclusive.
KeepGoing(event) == event.kind # "error" /\ event.kind # "exit"

\* flatMap completes once its source and its inner stream have completed.
FlatMapComplete(W) ==
  IF W.phase = "live" /\ ~W.outer.on /\ ~W.muxOn /\ ~W.exitListener
    THEN [W EXCEPT !.phase = "completed"]
    ELSE W

\* Teardown of the lifecycle stream nested in getOutputStream
\* (exitSub.unsubscribe()).
ExitSubUnsubscribe(W, r) ==
  LET W1 == [W EXCEPT !.exitListener = FALSE]
  IN  IF W1.inner.on
        THEN LifecycleFinally([W1 EXCEPT !.inner.on = FALSE], "inner", r)
        ELSE W1

\* A teardown that leaves the delay(100) timers scheduled.
MuxTeardown_KeepTimers(W, r) ==
  ExitSubUnsubscribe(
    [W EXCEPT !.muxOn = FALSE,
              !.lines = [s \in StreamNames |-> [W.lines[s] EXCEPT !.open = FALSE]]], r)

\* Teardown of getOutputStream's merged stream: the stream listeners and
\* grace timers go, then finally() releases the replayed exit.
MuxTeardown(W, r) ==
  ExitSubUnsubscribe(
    [W EXCEPT !.muxOn = FALSE, !.lines = [s \in StreamNames |-> ClosedLine]], r)

\* takeWhileInclusive: pass the event on; complete after the first one
\* that fails the predicate.
takeWhileInclusive(W, event, r) ==
  IF ~W.muxOn THEN W
  ELSE LET W1 == [W EXCEPT !.events = Append(@, event)]
       IN  IF KeepGoing(event) THEN W1 ELSE FlatMapComplete(MuxTeardown(W1, r))

\* merge(stdout, stderr, exit): the replayed exit is passed on as soon as
\* it is there, whatever the line streams are doing.
ConcatExit_Merge(W, r) ==
  IF W.muxOn /\ W.replay # << >>
    THEN takeWhileInclusive(W, W.replay[1], r)
    ELSE W

\* merge(stdout, stderr).concat(exit): once both line streams have
\* completed the replayed exit is subscribed and passed on.
ConcatExit(W, r) ==
  IF W.muxOn /\ (\A s \in StreamNames : ~W.lines[s].open) /\ W.replay # << >>
    THEN takeWhileInclusive(W, W.replay[1], r)
    ELSE W

\* A line stream completes (its source ended, or close arrived):
\* splitStream flushes the unfinished line.
LineComplete(W, s, r) ==
  IF ~(W.muxOn /\ W.lines[s].open) THEN W
  ELSE LET flush == IF W.lines[s].buf = << >> THEN << >>
                    ELSE << [kind |-> s, data |-> W.lines[s].buf] >>
       IN  ConcatExit([W EXCEPT !.events = @ \o flush, !.lines[s] = ClosedLine], r)

\* A chunk arrives on a line stream.
LineData(W, s, chunk) ==
  IF ~(W.muxOn /\ W.lines[s].open) THEN W
  ELSE LET sp == SplitText(W.lines[s].buf \o chunk, << >>, << >>)
       IN  [W EXCEPT !.events = @ \o LineEvents(s, sp.out),
                     !.lines[s].buf = sp.current]

\* A close signal that never comes: no timer is started.
StartClose_Never(W) == W

\* exit.delay(100): each open line stream's close timer starts when the
\* replayed exit emits.
StartClose(W) ==
  [W EXCEPT !.lines = [s \in StreamNames |->
                         IF W.lines[s].open THEN [W.lines[s] EXCEPT !.timer = TRUE]
                         ELSE W.lines[s]]]

\* A lifecycle stream whose do() handlers leave the finished flag alone.
LifecycleEnd_NotFinished(W, which, cause, r) ==
  IF ~W[which].on THEN W
  ELSE LET W1 == LifecycleFinally(
                   [W EXCEPT ![which] = [on |-> FALSE, finished |-> FALSE]], which, r)
       IN  IF which = "inner" THEN W1
           ELSE IF W1.kind = "createProcessStream"
             THEN IF cause = "error" /\ ThrowOnError(W1.kind)
                    THEN [W1 EXCEPT !.phase = "failed", !.failure = "error"]
                    ELSE [W1 EXCEPT !.phase = "completed"]
             ELSE FlatMapComplete(W1)

\* A lifecycle stream ends on the handle's 'error' or (filtered) 'exit'.
LifecycleEnd(W, which, cause, r) ==
  IF ~W[which].on THEN W
  ELSE LET W1 == LifecycleFinally(
                   [W EXCEPT ![which] = [on |-> FALSE, finished |-> TRUE]], which, r)
       IN  IF which = "inner" THEN W1
           ELSE IF W1.kind = "createProcessStream"
             THEN IF cause = "error" /\ ThrowOnError(W1.kind)
                    THEN [W1 EXCEPT !.phase = "failed", !.failure = "error"]
                    ELSE [W1 EXCEPT !.phase = "completed"]
             ELSE FlatMapComplete(W1)

\* The 'exit' listener that flatMap(observeProcessExitMessage) attached.
ExitListener(W, message, r) ==
  IF ~W.exitListener THEN W
  ELSE LET W1 == [W EXCEPT !.exitListener = FALSE]
       IN  IF W1.kind = "observeProcessExit"
             THEN FlatMapComplete([W1 EXCEPT !.events = Append(@, message)])
             ELSE ConcatExit(
                    StartClose([W1 EXCEPT !.replay = << message >>,
                                          !.replayDone = ~W1.inner.on]), r)

\* The handle emits 'exit': its listeners run in the order they were attached.
OnExit(W, a, r) ==
  LET message == ExitMessage(a)
  IN  IF ~ExitFilter(message) THEN W
      ELSE ExitListener(
             LifecycleEnd(LifecycleEnd(W, "outer", "exit", r), "inner", "exit", r),
             message, r)

\* The handle emits 'error'.
OnError(W, r) ==
  takeWhileInclusive(
    LifecycleEnd(LifecycleEnd(W, "outer", "error", r), "inner", "error", r),
    [kind |-> "error", error |-> "err"], r)

\* _createProcessStream at subscription: create the process, check it.
_createProcessStream(W, which, create, pick) ==
  LET W1 == IF create # "user" THEN W
            ELSE IF pick = 0
              THEN LET pid == Pid(Len(W.spawned) + 1)
                   IN  [W EXCEPT !.createCalls = @ + 1,
                                 !.spawned = Append(@, pid),
                                 !.handles = (pid :> NewHandle(pid)) @@ @,
                                 !.proc = pid]
              ELSE [W EXCEPT !.createCalls = @ + 1, !.proc = pick]
  IN  IF ~ProcessIsFresh(W1.handles[W1.proc])
        THEN [W1 EXCEPT !.phase = "failed", !.failure = "AssertionError"]
        ELSE [W1 EXCEPT ![which] = [on |-> TRUE, finished |-> FALSE]]

\* getOutputStream calling the creation function for its own lifecycle.
getOutputStream_CreatesAgain(W) ==
  LET W1 == _createProcessStream(W, "inner", "user", 0)
  IN  IF W1.phase = "failed" THEN W1
      ELSE [W1 EXCEPT !.exitListener = TRUE,
                      !.muxOn = TRUE,
                      !.lines = [s \in StreamNames |->
                                   [open |-> TRUE, timer |-> FALSE, buf |-> << >>]]]

\* getOutputStream at subscription.
getOutputStream(W) ==
  LET W1 == _createProcessStream(W, "inner", "same", 0)
  IN  IF W1.phase = "failed" THEN W1
      ELSE [W1 EXCEPT !.exitListener = TRUE,
                      !.muxOn = TRUE,
                      !.lines = [s \in StreamNames |->
                                   [open |-> TRUE, timer |-> FALSE, buf |-> << >>]]]

NoLifecycle == [on |-> FALSE, finished |-> FALSE]

NoHist ==
  [ exit |-> << >>, usr1 |-> 0, errors |-> 0, first |-> "none", chunks |-> 0,
    delivered |-> [s \in StreamNames |-> << >>],
    grace |-> [s \in StreamNames |-> FALSE],
    late |-> FALSE, stale |-> FALSE, unsubAt |-> Null ]

\* A subscription to observeProcess, observeProcessExit or createProcessStream.
SubscribeTo(W, k, kt, pick) ==
  LET W0 == [W EXCEPT !.subs = @ + 1, !.phase = "live", !.kind = k, !.killTree = kt,
                      !.outer = NoLifecycle, !.inner = NoLifecycle,
                      !.exitListener = FALSE, !.replay = << >>, !.replayDone = FALSE,
                      !.muxOn = FALSE,
                      !.lines = [s \in StreamNames |-> ClosedLine],
                      !.events = << >>, !.failure = Null, !.hist = NoHist]
      W1 == _createProcessStream(W0, "outer", "user", pick)
  IN  IF W1.phase = "failed" THEN W1
      ELSE IF k = "createProcessStream"
        THEN [W1 EXCEPT !.events = << [kind |-> "process", proc |-> W1.proc] >>]
      ELSE IF k = "observeProcessExit"
        THEN [W1 EXCEPT !.exitListener = TRUE]
      ELSE getOutputStream(W1)

\* The subscriber unsubscribes: the lifecycle stream is torn down first,
\* then whatever flatMap had subscribed.
UnsubscribeFrom(W, r) ==
  LET W1 == IF W.outer.on
              THEN LifecycleFinally([W EXCEPT !.outer.on = FALSE], "outer", r)
              ELSE W
      W2 == IF W1.kind = "observeProcess" THEN MuxTeardown(W1, r)
            ELSE [W1 EXCEPT !.exitListener = FALSE]
  IN  [W2 EXCEPT !.phase = "unsubscribed"]

\* ------------------------------------------------------------- actions
\* What Node records on the handle before it emits 'exit'.
HandleExit(h, a) ==
  IF a.signal # Null THEN [h EXCEPT !.signalCode = a.signal]
  ELSE [h EXCEPT !.exitCode = a.exitCode]

Subscribe ==
  /\ factory \in {"fresh", "given"}
  /\ phase # "live"
  /\ subs < MaxSubs
  /\ \E pick \in (IF factory = "fresh" THEN {0} ELSE DOMAIN handles) :
       Set([SubscribeTo(World, kind, killTree, pick) EXCEPT
              !.hist.stale = pick # 0 /\ (Terminated(handles[pick]) \/ handles[pick].killed)])

Unsubscribe ==
  /\ phase = "live"
  /\ \E r \in KillResultsFor(handles[proc]) :
       Set(UnsubscribeFrom([World EXCEPT !.hist.unsubAt = hist.first], r))

ProcExit(a) ==
  /\ phase = "live" \/ factory = "none"
  /\ ~Terminated(handles[proc])
  /\ a.signal = "SIGUSR1" => hist.usr1 < MaxUsr1
  /\ LET real == a.signal # "SIGUSR1"
         W0 == [World EXCEPT
                  !.handles[proc] = HandleExit(@, a),
                  !.hist.usr1 = IF real THEN @ ELSE @ + 1,
                  !.hist.exit = IF real /\ phase = "live" THEN << ExitMessage(a) >> ELSE @,
                  !.hist.first = IF real /\ phase = "live" /\ @ = "none"
                                   THEN "exit" ELSE @]
     IN  Set(OnExit(W0, a, "gone"))

ProcError ==
  /\ phase = "live"
  /\ hist.errors < MaxErrors
  /\ \E r \in KillResultsFor(handles[proc]) :
       Set(OnError([World EXCEPT
                      !.hist.errors = @ + 1,
                      !.hist.first = IF @ = "none" THEN "error" ELSE @], r))

StreamData(s, chunk) ==
  /\ phase = "live"
  /\ kind = "observeProcess"
  /\ ~handles[proc].ended[s]
  /\ hist.chunks < MaxChunks
  /\ Set(LineData([World EXCEPT
                     !.hist.chunks = @ + 1,
                     !.hist.delivered[s] = IF hist.grace[s] THEN @ ELSE @ \o chunk,
                     !.hist.late = @ \/ (hist.exit # << >> /\ ~hist.grace[s])],
                  s, chunk))

StreamEnd(s) ==
  /\ phase = "live"
  /\ kind = "observeProcess"
  /\ ~handles[proc].ended[s]
  /\ Set(LineComplete([World EXCEPT !.handles[proc].ended[s] = TRUE], s, "gone"))

\* The 100 ms timer of a line stream's close signal fires.
CloseTimer(s) ==
  /\ lines[s].timer
  /\ Set(LineComplete([World EXCEPT !.hist.grace[s] = TRUE], s, "gone"))

\* The handle emits 'exit' after the subscription has ended.
LateExit(a) ==
  /\ phase \in {"completed", "failed", "unsubscribed"}
  /\ ~Terminated(handles[proc])
  /\ a.signal = "SIGUSR1" => hist.usr1 < MaxUsr1
  /\ Set(OnExit([World EXCEPT
                   !.handles[proc] = HandleExit(@, a),
                   !.hist.usr1 = IF a.signal = "SIGUSR1" THEN @ + 1 ELSE @],
                a, "gone"))

\* The handle emits 'error' after the subscription has ended.
LateError ==
  /\ phase \in {"completed", "failed", "unsubscribed"}
  /\ hist.errors < MaxErrors
  /\ \E r \in KillResultsFor(handles[proc]) :
       Set(OnError([World EXCEPT !.hist.errors = @ + 1], r))

\* ------------------------------------------------- process-table reports
\* The text of a number, as the listing command prints it.
RECURSIVE ToDigits(_)
ToDigits(n) ==
  IF n < 10 THEN << Digits[n + 1] >>
  ELSE ToDigits(n \div 10) \o << Digits[(n % 10) + 1] >>

\* The process rows a report can hold: parent id, id and the words of the
\* command; parentPid = NaN is a row whose parent column is not a number.
PsRows ==
  { [parentPid |-> 1,   pid |-> 50, words |-> << << "a" >> >>],
    [parentPid |-> 50,  pid |-> 51, words |-> << << "b" >>, << "-", "c" >> >>],
    [parentPid |-> 50,  pid |-> 52, words |-> << << "a" >> >>],
    [parentPid |-> NaN, pid |-> 7,  words |-> << << "a" >> >>] }

\* Column layout: padding in front of a line and between its columns.
PsLayouts ==
  { [pad |-> << >>, gap |-> << SP >>],
    [pad |-> << SP, SP >>, gap |-> << SP, TAB >>] }

PsHeader == << "P", "P", "I", "D", SP, "P", "I", "D", SP, "C", "O", "M", "M" >>

RECURSIVE JoinWith(_, _)
JoinWith(pieces, sep) ==
  IF pieces = << >> THEN << >>
  ELSE IF Len(pieces) = 1 THEN pieces[1]
  ELSE pieces[1] \o sep \o JoinWith(Tail(pieces), sep)

PsRowText(row, layout) ==
  layout.pad
    \o JoinWith(<< IF row.parentPid = NaN THEN << "?" >> ELSE ToDigits(row.parentPid),
                   ToDigits(row.pid) >> \o row.words,
                layout.gap)

\* The report the listing command (ps, wmic) prints: a header line, then
\* one line per process, lines separated by eol.
PsReport(rows, layout, eol, trailing) ==
  JoinWith(<< PsHeader >> \o [n \in 1..Len(rows) |-> PsRowText(rows[n], layout)], eol)
    \o (IF trailing THEN eol ELSE << >>)

RowSeqs == UNION { [1..n -> PsRows] : n \in 0..MaxRows }

\* The process ids getChildrenOfProcess is asked about.
QueryPids == {1, 50, 51, 9}

NoPs ==
  [ rows |-> << >>, trailing |-> FALSE, psOutput |-> << >>, processes |-> << >>,
    processId |-> 0, children |-> << >> ]

\* psTree hands the report to parsePsOutput.
CallParsePsOutput ==
  /\ ps.psOutput # << >>
  /\ ps.processes = << >>
  /\ ps' = [ps EXCEPT !.processes = << parsePsOutput(ps.psOutput) >>]
  /\ UNCHANGED streamVars

\* getChildrenOfProcess(processId) on the parsed table.
CallGetChildrenOfProcess(processId) ==
  /\ ps.processes # << >>
  /\ ps.children = << >>
  /\ ps' = [ps EXCEPT !.processId = processId,
                      !.children = << getChildrenOfProcess(ps.processes[1], processId) >>]
  /\ UNCHANGED streamVars

\* ------------------------------------------------------- specifications
InitCommon ==
  /\ platform \in {"posix", "win32"}
  /\ createCalls = 0
  /\ subs = 0
  /\ phase = "idle"
  /\ outer = NoLifecycle
  /\ inner = NoLifecycle
  /\ exitListener = FALSE
  /\ replay = << >>
  /\ replayDone = FALSE
  /\ muxOn = FALSE
  /\ lines = [s \in StreamNames |-> ClosedLine]
  /\ events = << >>
  /\ failure = Null
  /\ tasks = << >>
  /\ acts = << >>
  /\ errorLog = << >>
  /\ raised = FALSE
  /\ hist = NoHist

\* A stream whose createProcess spawns a new process at each subscription.
Init ==
  /\ InitCommon
  /\ factory = "fresh"
  /\ kind \in Kinds
  /\ killTree \in BOOLEAN
  /\ handles = << >>
  /\ spawned = << >>
  /\ proc = 0
  /\ ps = NoPs
  /\ run = NoRun

Next ==
  \/ Subscribe
  \/ Unsubscribe
  \/ \E a \in ExitArgs : ProcExit(a)
  \/ ProcError
  \/ \E s \in StreamNames, chunk \in Chunks : StreamData(s, chunk)
  \/ \E s \in StreamNames : StreamEnd(s)
  \/ \E s \in StreamNames : CloseTimer(s)
  \/ \E t \in 1..Len(tasks) : PsDone(t)
  \/ \E t \in 1..Len(tasks) : TaskkillDone(t)

Spec == Init /\ [][Next]_vars

\* The handles a createProcess that does not spawn can hand over: running,
\* exited with a code, terminated by a signal from elsewhere, killed
\* through kill() (running still, or gone), or kill-requested by a tree kill.
GivenHandles ==
  LET h == NewHandle(Pid(1))
  IN  { h,
        [h EXCEPT !.exitCode = 0],
        [h EXCEPT !.exitCode = 1],
        [h EXCEPT !.signalCode = "SIGKILL"],
        [h EXCEPT !.killed = TRUE, !.wasKilled = TRUE],
        [h EXCEPT !.killed = TRUE, !.wasKilled = TRUE, !.signalCode = "SIGTERM"],
        [h EXCEPT !.wasKilled = TRUE] }

\* A stream whose createProcess returns a handle that was made earlier.
InitGiven ==
  /\ InitCommon
  /\ factory = "given"
  /\ kind \in Kinds
  /\ killTree \in BOOLEAN
  /\ handles \in { (Pid(1) :> h) : h \in GivenHandles }
  /\ spawned = << Pid(1) >>
  /\ proc = 0
  /\ ps = NoPs
  /\ run = NoRun

SpecGiven == InitGiven /\ [][Next]_vars

\* A caller that holds a handle and calls killProcess on it directly.
InitKill ==
  /\ InitCommon
  /\ factory = "none"
  /\ kind = "observeProcess"
  /\ killTree = FALSE
  /\ handles = (Pid(1) :> NewHandle(Pid(1)))
  /\ spawned = << Pid(1) >>
  /\ proc = Pid(1)
  /\ ps = NoPs
  /\ run = NoRun

NextKill ==
  \/ \E i \in DOMAIN handles : CallerKill(i)
  \/ \E a \in ExitArgs : ProcExit(a)
  \/ \E t \in 1..Len(tasks) : PsDone(t)
  \/ \E t \in 1..Len(tasks) : TaskkillDone(t)

SpecKill == InitKill /\ [][NextKill]_vars

\* One subscription to observeProcess(createProcess), followed from the
\* moment it is made, with the timers of the event loop firing.
InitLive ==
  /\ platform = "posix"
  /\ factory = "fresh"
  /\ LET W == SubscribeTo(
                [ handles |-> << >>, spawned |-> << >>, createCalls |-> 0,
                  subs |-> 0, phase |-> "idle", kind |-> "observeProcess",
                  killTree |-> FALSE, proc |-> 0, outer |-> NoLifecycle,
                  inner |-> NoLifecycle, exitListener |-> FALSE, replay |-> << >>,
                  replayDone |-> FALSE, muxOn |-> FALSE,
                  lines |-> [s \in StreamNames |-> ClosedLine], events |-> << >>,
                  failure |-> Null, tasks |-> << >>, acts |-> << >>,
                  errorLog |-> << >>, raised |-> FALSE, hist |-> NoHist,
                  run |-> NoRun ],
                "observeProcess", FALSE, 0)
     IN  /\ handles = W.handles
         /\ spawned = W.spawned
         /\ createCalls = W.createCalls
         /\ subs = W.subs
         /\ phase = W.phase
         /\ kind = W.kind
         /\ killTree = W.killTree
         /\ proc = W.proc
         /\ outer = W.outer
         /\ inner = W.inner
         /\ exitListener = W.exitListener
         /\ replay = W.replay
         /\ replayDone = W.replayDone
         /\ muxOn = W.muxOn
         /\ lines = W.lines
         /\ events = W.events
         /\ failure = W.failure
         /\ tasks = W.tasks
         /\ acts = W.acts
         /\ errorLog = W.errorLog
         /\ raised = W.raised
         /\ hist = W.hist
         /\ run = W.run
         /\ ps = NoPs

NextLive ==
  \/ Unsubscribe
  \/ \E a \in ExitArgs : ProcExit(a)
  \/ ProcError
  \/ \E s \in StreamNames, chunk \in Chunks : StreamData(s, chunk)
  \/ \E s \in StreamNames : StreamEnd(s)
  \/ \E s \in StreamNames : CloseTimer(s)

SpecLive ==
  /\ InitLive
  /\ [][NextLive]_vars
  /\ \A s \in StreamNames : WF_vars(CloseTimer(s))

\* createProcessStream(createProcess): the handle stream, with the handle
\* going on to emit after the subscription has ended.
InitStream ==
  /\ InitCommon
  /\ factory = "fresh"
  /\ kind = "createProcessStream"
  /\ killTree \in BOOLEAN
  /\ handles = << >>
  /\ spawned = << >>
  /\ proc = 0
  /\ ps = NoPs
  /\ run = NoRun

NextStream ==
  \/ Subscribe
  \/ Unsubscribe
  \/ \E a \in ExitArgs : ProcExit(a)
  \/ ProcError
  \/ \E a \in ExitArgs : LateExit(a)
  \/ LateError
  \/ \E t \in 1..Len(tasks) : PsDone(t)
  \/ \E t \in 1..Len(tasks) : TaskkillDone(t)

SpecStream == InitStream /\ [][NextStream]_vars

\* runCommand(command, args): the stream it returns spawns at each
\* subscription.
InitRun ==
  /\ InitCommon
  /\ platform = "posix"
  /\ factory = "fresh"
  /\ kind = "observeProcess"
  /\ killTree = FALSE
  /\ handles = << >>
  /\ spawned = << >>
  /\ proc = 0
  /\ ps = NoPs
  /\ run = [NoRun EXCEPT !.on = TRUE]

\* The chunks the command's process writes: a line and the start of the next.
RunChunks == { << "a", NL, "b" >> }

NextRun ==
  \/ Subscribe
  \/ Unsubscribe
  \/ \E a \in ExitArgs : ProcExit(a)
  \/ ProcError
  \/ \E s \in StreamNames, chunk \in RunChunks : StreamData(s, chunk)
  \/ \E s \in StreamNames : StreamEnd(s)
  \/ \E s \in StreamNames : CloseTimer(s)

SpecRun == InitRun /\ [][NextRun]_vars

\* The process table is listed, parsed and queried.
InitPs ==
  /\ InitCommon
  /\ factory = "none"
  /\ kind = "observeProcess"
  /\ killTree = FALSE
  /\ handles = << >>
  /\ spawned = << >>
  /\ proc = 0
  /\ run = NoRun
  /\ \E rows \in RowSeqs, layout \in PsLayouts, eol \in {<< NL >>, << CR, NL >>},
        trailing \in BOOLEAN :
       ps = [NoPs EXCEPT !.rows = rows, !.trailing = trailing,
                         !.psOutput = PsReport(rows, layout, eol, trailing)]

NextPs ==
  \/ CallParsePsOutput
  \/ \E processId \in QueryPids : CallGetChildrenOfProcess(processId)

SpecPs == InitPs /\ [][NextPs]_vars

\* ---------------------------------------------------------------- claims
TerminalEvents == { n \in 1..Len(events) : events[n].kind \in {"error", "exit"} }

\* The process of the subscription is over for the multiplexer: an 'error'
\* was notified, or a real exit was and each output stream has ended or
\* had its grace period.
ProcessOver ==
  \/ hist.errors > 0
  \/ /\ hist.exit # << >>
     /\ \A s \in StreamNames : handles[proc].ended[s] \/ hist.grace[s]

\* C1: in observeProcess the merged sequence holds at most one 'error' or
\* 'exit' event, that event is the last one (nothing is emitted after it),
\* and once the process is over while the subscriber is still there, the
\* sequence holds exactly one and has completed.
C1_SingleTerminalLast ==
  kind = "observeProcess" =>
    /\ Cardinality(TerminalEvents) <= 1
    /\ \A n \in TerminalEvents : n = Len(events)
    /\ (phase \in {"live", "completed"} /\ ProcessOver) =>
         (Cardinality(TerminalEvents) = 1 /\ phase = "completed")
    /\ phase = "completed" => Cardinality(TerminalEvents) = 1

C1_Witness ==
  /\ kind = "observeProcess"
  /\ phase = "completed"
  /\ Len(events) >= 3
  /\ events[Len(events)].kind = "exit"
  /\ hist.late

\* The kill requests made on the subscription's handle.
KillsOfProc == { t \in 1..Len(tasks) : tasks[t].h = proc }

\* C2: a subscription unsubscribed before any 'error' or real 'exit'
\* notification has had its process kill-requested exactly once, by the
\* exported function's own lifecycle stream and with its killTreeOnComplete.
C2_KilledOnceOnUnsubscribe ==
  (phase = "unsubscribed" /\ hist.unsubAt = "none") =>
    /\ Cardinality(KillsOfProc) = 1
    /\ \A t \in KillsOfProc : tasks[t].tree = killTree /\ tasks[t].by = "outer"
    /\ handles[proc].wasKilled

C2_Witness ==
  /\ kind = "observeProcess"
  /\ killTree
  /\ phase = "unsubscribed"
  /\ hist.unsubAt = "none"
  /\ hist.chunks > 0
  /\ Cardinality(KillsOfProc) = 1

ActsOn(op, pid) == { n \in 1..Len(acts) : acts[n].op = op /\ acts[n].pid = pid }

ActPids == { acts[n].pid : n \in 1..Len(acts) }

\* C3: whatever killProcess calls are made on a handle, each termination
\* action (kill() on the handle, a signal to a child, the taskkill command)
\* is performed at most once, and no call raises.
C3_KillAtMostOnce ==
  /\ ~raised
  /\ \A p \in ActPids, op \in {"kill", "signal", "taskkill"} :
       Cardinality(ActsOn(op, p)) <= 1

LastEvent == events[Len(events)]

\* C4 as stated: an observeProcess sequence that has completed after a real
\* exit notification arrived during the subscription holds the exit event.
C4_ExitAlwaysEmitted ==
  (kind = "observeProcess" /\ phase = "completed" /\ hist.exit # << >>) =>
    \E n \in 1..Len(events) : events[n].kind = "exit"

\* C4 as amended: once a real exit notification has arrived, the sequence
\* does not stay open, whether or not stdout and stderr ever end (the close
\* timers cut them off); when it completes its last event is that exit, or
\* an error event if an 'error' notification arrived before the end.
C4_CompletesAfterExit ==
  /\ [](( kind = "observeProcess" /\ phase = "completed" /\ hist.exit # << >>) =>
          \/ LastEvent = hist.exit[1]
          \/ LastEvent.kind = "error" /\ hist.errors > 0)
  /\ [](( kind = "observeProcess" /\ phase = "completed" /\ hist.exit # << >>
          /\ hist.errors = 0) => LastEvent = hist.exit[1])
  /\ (kind = "observeProcess" /\ phase = "live" /\ hist.exit # << >>)
       ~> (phase # "live")

C4_Witness ==
  /\ kind = "observeProcess"
  /\ phase = "completed"
  /\ hist.exit # << >>
  /\ LastEvent = hist.exit[1]
  /\ \A s \in StreamNames : ~handles[proc].ended[s] /\ hist.grace[s]

\* The text the subscriber received as events of one output stream.
RECURSIVE TextOf(_, _)
TextOf(evs, s) ==
  IF evs = << >> THEN << >>
  ELSE (IF Head(evs).kind = s THEN Head(evs).data ELSE << >>) \o TextOf(Tail(evs), s)

\* C5: when observeProcess emits the exit event, each output stream has
\* ended or had its grace period, the exit event is the last one, and every
\* chunk delivered before the stream's grace period ran out (those after
\* the exit notification included) is in the events before it.
C5_OutputBeforeExit ==
  (kind = "observeProcess" /\ \E n \in 1..Len(events) : events[n].kind = "exit") =>
    /\ LastEvent.kind = "exit"
    /\ \A s \in StreamNames :
         /\ handles[proc].ended[s] \/ hist.grace[s]
         /\ TextOf(events, s) = hist.delivered[s]

C5_Witness ==
  /\ kind = "observeProcess"
  /\ events # << >>
  /\ LastEvent.kind = "exit"
  /\ hist.late
  /\ hist.grace["stdout"] /\ hist.grace["stderr"]
  /\ hist.delivered["stdout"] # << >>

\* C6: every subscription has invoked the creation function exactly once
\* (none before the first subscription), each invocation made a handle of
\* its own, and the subscription works on the handle it created.
C6_OneCreationPerSubscription ==
  /\ createCalls = subs
  /\ Len(spawned) = subs
  /\ \A i, j \in 1..Len(spawned) : i # j => spawned[i] # spawned[j]
  /\ phase = "idle" => createCalls = 0
  /\ phase # "idle" => proc = spawned[subs]

C6_Witness ==
  /\ kind = "observeProcess"
  /\ subs = 2
  /\ phase = "live"
  /\ inner.on

\* C7: an 'exit' notification carrying SIGUSR1 ends nothing.  While no
\* 'error' and no other 'exit' has been notified the lifecycle stream is
\* on and unfinished and no terminal event was emitted; unsubscribing then
\* kills the process; and an exit record that is emitted is the one of the
\* first other 'exit' notification.
C7_Usr1NotTerminal ==
  /\ (phase = "live" /\ hist.usr1 > 0 /\ hist.first = "none") =>
       (outer.on /\ ~outer.finished /\ TerminalEvents = {})
  /\ (phase = "unsubscribed" /\ hist.usr1 > 0 /\ hist.unsubAt = "none") =>
       KillsOfProc # {}
  /\ \A n \in 1..Len(events) :
       events[n].kind = "exit" =>
         (hist.exit = << events[n] >> /\ events[n].signal # "SIGUSR1")
  /\ (kind = "observeProcessExit" /\ hist.exit # << >>) => events = hist.exit
  /\ (kind = "observeProcess" /\ phase = "completed" /\ hist.errors = 0) =>
       hist.exit = << LastEvent >>
  /\ (kind = "createProcessStream" /\ hist.exit # << >>) => phase = "completed"

C7_Witness ==
  /\ kind = "observeProcess"
  /\ hist.usr1 > 0
  /\ phase = "completed"
  /\ hist.exit = << LastEvent >>

Logged(t) == \E n \in 1..Len(errorLog) : errorLog[n] = t

Settled(t) == tasks[t].pc \in {"resolved", "rejected"}

\* C8: no killProcess call raises, and every kill in which a step failed
\* (kill() threw, the process table query failed, a signal to a child
\* threw, taskkill failed) has had that failure logged.
C8_FailuresOnlyLogged ==
  /\ ~raised
  /\ \A t \in 1..Len(tasks) : (Settled(t) /\ tasks[t].failed) => Logged(t)

\* The pids of the rows of a process table whose parent is the target.
RECURSIVE ChildPids(_, _)
ChildPids(table, target) ==
  IF table = << >> THEN << >>
  ELSE (IF Head(table).parentPid = target THEN << Head(table).pid >> ELSE << >>)
         \o ChildPids(Tail(table), target)

\* The pids one kill signalled, in order (ops: the operations counted).
RECURSIVE SentBy(_, _, _)
SentBy(as, t, ops) ==
  IF as = << >> THEN << >>
  ELSE (IF Head(as).task = t /\ Head(as).op \in ops THEN << Head(as).pid >> ELSE << >>)
         \o SentBy(Tail(as), t, ops)

IsPrefix(a, b) == Len(a) <= Len(b) /\ a = SubSeq(b, 1, Len(a))

\* C9: a POSIX tree kill signals only rows of the process table whose
\* parent is the target, in table order and each once; when it kills the
\* target, every such row has been signalled, and before the target.  No
\* other kill signals anything but its target.
C9_UnixTreeKill ==
  \A t \in 1..Len(tasks) :
    LET target   == tasks[t].h
        expected == ChildPids(tasks[t].table, target)
        tried    == SentBy(acts, t, {"signal", "signal-failed"})
        sent     == SentBy(acts, t, {"signal"})
        killAt   == { n \in 1..Len(acts) : acts[n].task = t /\ acts[n].op = "kill" }
    IN  IF tasks[t].tree /\ platform = "posix"
          THEN /\ IsPrefix(tried, expected)
               /\ killAt # {} =>
                    /\ sent = expected
                    /\ \A n \in killAt, m \in 1..Len(acts) :
                         (acts[m].task = t /\ acts[m].op = "signal") => m < n
          ELSE tried = << >>

C9_Witness ==
  \E t \in 1..Len(tasks) :
    /\ tasks[t].tree /\ platform = "posix"
    /\ Len(SentBy(acts, t, {"signal"})) = 2
    /\ \E n \in 1..Len(acts) : acts[n].task = t /\ acts[n].op = "kill"

\* C10: a subscription whose createProcess hands over a handle that has
\* already terminated (by exit code or by signal) or was already killed
\* fails with the assertion error.
C10_StaleHandleRejected ==
  (subs > 0 /\ hist.stale) => (phase = "failed" /\ failure = "AssertionError")

\* The records of a table whose parent id is p, in table order.
RECURSIVE RowsWithParent(_, _)
RowsWithParent(table, p) ==
  IF table = << >> THEN << >>
  ELSE (IF Head(table).parentPid = p THEN << Head(table) >> ELSE << >>)
         \o RowsWithParent(Tail(table), p)

\* C11: getChildrenOfProcess(p) returns the records of the parsed table
\* whose parentPid is p, in table order, and no other; a record whose
\* parent id is NaN is never among them.
C11_ChildrenAreRowsWithParent ==
  ps.children # << >> =>
    /\ ps.children[1] = RowsWithParent(ps.processes[1], ps.processId)
    /\ \A n \in 1..Len(ps.children[1]) :
         /\ ps.children[1][n].parentPid = ps.processId
         /\ ps.children[1][n].parentPid # NaN

C11_Witness ==
  /\ ps.children # << >>
  /\ Len(ps.children[1]) = 2
  /\ ps.children[1][1].pid # ps.children[1][2].pid
  /\ \E n \in 1..Len(ps.processes[1]) : ps.processes[1][n].parentPid = NaN
  /\ \E n \in 1..Len(ps.processes[1]) : ps.processes[1][n].pid = ps.processId

\* The record a process row of a report stands for.
RowRecord(row) ==
  [ command |-> JoinWith(row.words, << " " >>), parentPid |-> row.parentPid,
    pid |-> row.pid ]

\* C12: parsePsOutput of a report of a header line and N process rows
\* returns N records, the n-th of them the record of the n-th row, whether
\* or not the report ends with a line terminator.
C12_OneRecordPerRow ==
  ps.processes # << >> =>
    ps.processes[1] = [n \in 1..Len(ps.rows) |-> RowRecord(ps.rows[n])]

\* C13: when the sequence runCommand observes has completed, its result
\* follows from the terminal event: ProcessSystemError for an error;
\* ProcessExitError with the exit record and the stdout and stderr of the
\* sequence for an exit with a code other than 0 or with a signal; the
\* stdout of the sequence, emitted as the one value, for an exit with code 0.
C13_ResultFromTerminalEvent ==
  (run.on /\ phase = "completed") =>
    /\ run.result # << >>
    /\ LastEvent.kind = "error" => run.result[1].kind = "ProcessSystemError"
    /\ (LastEvent.kind = "exit" /\ LastEvent.exitCode # 0) =>
         /\ run.result[1].kind = "ProcessExitError"
         /\ run.result[1].exitMessage = << LastEvent >>
         /\ run.result[1].stdout = TextOf(events, "stdout")
         /\ run.result[1].stderr = TextOf(events, "stderr")
    /\ (LastEvent.kind = "exit" /\ LastEvent.exitCode = 0) =>
         /\ run.result[1].kind = "value"
         /\ run.result[1].stdout = TextOf(events, "stdout")

\* C14: a POSIX tree kill that has run to its end has sent the termination
\* signal to its target, whether or not the process table could be read
\* and whether or not a signal to a child failed.
C14_TargetAlwaysSignalled ==
  \A t \in 1..Len(tasks) :
    (tasks[t].tree /\ platform = "posix" /\ Settled(t)) =>
      \E n \in 1..Len(acts) :
        acts[n].task = t /\ acts[n].op = "kill" /\ acts[n].pid = tasks[t].h

\* C15: a tree kill on Windows runs one taskkill command, for the target's
\* pid; once the command has completed, the kill is rejected and logged
\* exactly when the command failed.
C15_TaskkillFailureReported ==
  \A t \in 1..Len(tasks) :
    (tasks[t].tree /\ platform = "win32") =>
      /\ Cardinality({ n \in 1..Len(acts) : acts[n].task = t }) = 1
      /\ \E n \in 1..Len(acts) :
           acts[n].task = t /\ acts[n].op = "taskkill" /\ acts[n].pid = tasks[t].h
      /\ Settled(t) =>
           /\ (tasks[t].pc = "rejected") <=> tasks[t].failed
           /\ Logged(t) <=> tasks[t].failed

\* C16: a subscription during which the process notified an 'error' or a
\* real 'exit' has made no kill request on its handle, neither when the
\* lifecycle streams ended nor when the subscriber unsubscribed afterwards
\* (the grace period after the exit included).
C16_NoKillAfterEnd ==
  (phase # "idle" /\ hist.first # "none") =>
    /\ KillsOfProc = {}
    /\ ~handles[proc].wasKilled
    /\ \A n \in 1..Len(acts) : acts[n].pid # proc

C16_Witness ==
  /\ kind = "observeProcess"
  /\ phase = "unsubscribed"
  /\ hist.unsubAt = "exit"
  /\ \E s \in StreamNames : ~handles[proc].ended[s] /\ ~hist.grace[s]
  /\ KillsOfProc = {}

\* C17: in observeProcess, when a real exit was the first notification and
\* the sequence has completed, its last event is that exit record.
C17_ExitNeverLost ==
  (kind = "observeProcess" /\ phase = "completed" /\ hist.first = "exit") =>
    LastEvent = hist.exit[1]

\* C18: the handle stream emits the handle once, at subscription; it is
\* live until the first 'error' or real 'exit'; an error first makes it
\* fail with that error, an exit first makes it complete; what the handle
\* notifies afterwards changes nothing.
C18_FirstNotificationDecides ==
  (kind = "createProcessStream" /\ phase # "idle") =>
    /\ events = << [kind |-> "process", proc |-> proc] >>
    /\ (hist.first = "none" /\ hist.unsubAt = Null) => phase = "live"
    /\ hist.first = "error" => (phase = "failed" /\ failure = "error")
    /\ hist.first = "exit" => (phase = "completed" /\ failure = Null)
    /\ phase = "failed" => hist.first = "error"
    /\ phase = "completed" => hist.first = "exit"

C18_Witness ==
  /\ kind = "createProcessStream"
  /\ phase = "completed"
  /\ hist.first = "exit"
  /\ hist.usr1 > 0
  /\ hist.errors > 0

\* C19: the observeProcessExit stream emits at most one record and has
\* ended once the first 'error' or real 'exit' was notified: after an exit
\* it holds that record, after an error it holds nothing.
C19_EndsAtFirstNotification ==
  kind = "observeProcessExit" =>
    /\ Len(events) <= 1
    /\ hist.first = "exit" => (phase = "completed" /\ events = hist.exit)
    /\ hist.first = "error" => (phase = "completed" /\ events = << >>)

\* C20: an observeProcess subscription that has ended (completed or
\* unsubscribed) has nothing attached: no lifecycle stream and no 'exit'
\* listener of the replayed exit is on, the merged stream is off, and no
\* line stream is open or has a close timer pending.
C20_NothingLeftAttached ==
  (kind = "observeProcess" /\ phase \in {"completed", "failed", "unsubscribed"}) =>
    /\ ~outer.on /\ ~inner.on
    /\ ~exitListener
    /\ ~muxOn
    /\ \A s \in StreamNames : ~lines[s].open /\ ~lines[s].timer

C20_Witness ==
  /\ kind = "observeProcess"
  /\ phase = "unsubscribed"
  /\ hist.unsubAt = "exit"
  /\ hist.exit # << >>
  /\ ~handles[proc].ended["stdout"] /\ ~hist.grace["stdout"]
  /\ handles[proc].ended["stderr"]
  /\ ~exitListener /\ ~inner.on

\* C21: a kill with killTree = false calls kill() on the target handle,
\* once, and does nothing else: it has not queried the process table, has
\* signalled no other pid and has run no taskkill, on either platform, and
\* it is settled as soon as the call returns.
C21_NonTreeKillsTargetOnly ==
  \A t \in 1..Len(tasks) :
    ~tasks[t].tree =>
      LET mine == { n \in 1..Len(acts) : acts[n].task = t }
      IN  /\ Cardinality(mine) = 1
          /\ \A n \in mine : acts[n].op = "kill" /\ acts[n].pid = tasks[t].h
          /\ tasks[t].table = << >>
          /\ Settled(t)
          /\ tasks[t].h \in DOMAIN handles => handles[tasks[t].h].wasKilled

C21_Witness ==
  \E t, u \in 1..Len(tasks) :
    /\ ~tasks[t].tree /\ tasks[t].pc = "resolved"
    /\ tasks[u].tree /\ Settled(u)
    /\ \E n \in 1..Len(acts) : acts[n].task = u /\ acts[n].op \in {"signal", "taskkill"}
    /\ Cardinality({ n \in 1..Len(acts) : acts[n].task = t }) = 1

====
